---------------------------- MODULE Spec2Model ----------------------------
(***************************************************************************)
(* Model of scripts/planner.py of my-ai-secretary: the daily task planner. *)
(* Issues are collected from GitHub, normalised (priority, points), packed *)
(* first-fit into the remaining weekdays and the plan is saved/notified.   *)
(***************************************************************************)
EXTENDS Integers, Sequences, FiniteSets, TLC

VARIABLES
    pc,             \* position of the run
    now,            \* datetime.now(): [date |-> ordinal, hour |-> h]
    issues,         \* plan_tasks' argument: the normalised backlog
    days,           \* plan_tasks: days
    sorted_issues,  \* plan_tasks: sorted_issues
    plan,           \* plan_tasks: plan (dict day -> list of tasks)
    day_points,     \* plan_tasks: day_points (dict day -> int)
    idx,            \* plan_tasks: position of the for loop in sorted_issues
    assigned,       \* plan_tasks: the flag `assigned` of the last iteration
    overflowed,     \* tasks whose iteration ended with `not assigned`
    run,            \* which invocation of plan_tasks on these issues this is
    first_plan,     \* what the first invocation returned
    first_now,      \* the clock the first invocation read
    labels,         \* get_issue_priority: the issue's label names
    result,         \* get_issue_priority: the value returned
    responses,      \* per project of the config, what the GitHub API answers
    all_issues,     \* collect_all_issues: all_issues
    pj,             \* collect_all_issues: position of the loop over projects
    calls,          \* the calls the run has made to the outside, in order
    saved           \* the plan written by save_plan

planVars == <<issues, days, sorted_issues, plan, day_points, idx, assigned, overflowed>>
detVars == <<run, first_plan, first_now>>
prioVars == <<labels, result>>
mainVars == <<responses, all_issues, pj, calls, saved>>

vars == <<pc, now, planVars, detVars, prioVars, mainVars>>

----------------------------------------------------------------------------
(* Bounds of the model *)

MaxTasks == 4
MaxToday == 7
MaxTasksDet == 2
MaxLabels == 2
NProj == 2
MaxIssues == 2

(* Program constants *)

MAX_POINTS_PER_DAY == 6
DEFAULT_POINTS == 3
DEFAULT_PRIORITY == 5

\* values of SIZE_POINTS plus DEFAULT_POINTS
PointValues == {1, 3, DEFAULT_POINTS, 5}

\* priorities get_issue_priority hands to the allocator in the planning runs
PriorityValues == {1, DEFAULT_PRIORITY}

\* times of day at which a run may read the clock
Hours == {9, 18}

Instants == [date : 1..MaxToday, hour : Hours]

\* the instants of the morning runs
MorningInstants == {t \in Instants : t.hour = 9}

----------------------------------------------------------------------------
(* Calendar: get_remaining_weekdays *)

\* datetime.weekday(): Monday = 0 .. Sunday = 6; ordinal 1 is a Monday
weekday(current) == (current.date + 6) % 7

\* current + timedelta(days=n): the time of day is kept
plus_days(current, n) == [current EXCEPT !.date = @ + n]

\* mutant: the day's key keeps the time of day
strftime_with_hour(current) ==
    [date |-> current.date, wd |-> (current.date + 6) % 7, hour |-> current.hour]

\* current.strftime("%Y-%m-%d (%a)"): the date and its weekday, no time
strftime_day(current) == [date |-> current.date, wd |-> weekday(current)]

\* mutant: the roll to Monday is one day short
days_until_monday_short(current) == 6 - weekday(current)

days_until_monday(current) == 7 - weekday(current)

\* the while loop: append and advance while current is Mon..Fri
RECURSIVE weekdays_from(_, _)
weekdays_from(current, acc) ==
    IF weekday(current) < 5
    THEN weekdays_from(plus_days(current, 1), Append(acc, strftime_day(current)))
    ELSE acc

get_remaining_weekdays(today) ==
    LET current == IF weekday(today) >= 5
                   THEN plus_days(today, days_until_monday(today))
                   ELSE today
    IN weekdays_from(current, <<>>)

----------------------------------------------------------------------------
(* Allocator: plan_tasks *)

\* mutant: the priority is compared the wrong way round
key_le_reversed(a, b) ==
    \/ a.priority > b.priority
    \/ a.priority = b.priority /\ a.points <= b.points

\* the sort key (t["priority"], t["points"]) compared as Python tuples
key_le(a, b) ==
    \/ a.priority < b.priority
    \/ a.priority = b.priority /\ a.points <= b.points

\* sorted() is stable: t goes after every element whose key is <= its key
RECURSIVE insert_sorted(_, _)
insert_sorted(s, t) ==
    IF s = <<>> THEN <<t>>
    ELSE IF key_le(Head(s), t) THEN <<Head(s)>> \o insert_sorted(Tail(s), t)
    ELSE <<t>> \o s

RECURSIVE sorted_by_key(_)
sorted_by_key(s) ==
    IF s = <<>> THEN <<>>
    ELSE insert_sorted(sorted_by_key(SubSeq(s, 1, Len(s) - 1)), s[Len(s)])

\* mutant: the scan forgets the task's own points
fits_ignoring_points(load, points) == load <= MAX_POINTS_PER_DAY

\* the condition of the first-fit scan
fits(load, points) == load + points <= MAX_POINTS_PER_DAY

\* mutant: best fit, the day with room that has the least load
best_fit(ds, dp, points) ==
    LET ok == {i \in 1..Len(ds) : fits(dp[ds[i]], points)}
    IN IF ok = {} THEN 0
       ELSE CHOOSE i \in ok :
                /\ \A j \in ok : dp[ds[i]] <= dp[ds[j]]
                /\ \A j \in ok : j < i => dp[ds[j]] > dp[ds[i]]

\* for day in days: ... break -- index of the first day with room, 0 if none
first_fit(ds, dp, points) ==
    LET ok == {i \in 1..Len(ds) : fits(dp[ds[i]], points)}
    IN IF ok = {} THEN 0 ELSE CHOOSE i \in ok : \A j \in ok : i <= j

\* mutant: the last day of minimal load
min_day_last(ds, dp) ==
    LET i == CHOOSE i \in 1..Len(ds) :
                 /\ \A j \in 1..Len(ds) : dp[ds[i]] <= dp[ds[j]]
                 /\ \A j \in (i + 1)..Len(ds) : dp[ds[j]] > dp[ds[i]]
    IN ds[i]

\* min(days, key=lambda d: day_points[d]): the first day of minimal load
min_day(ds, dp) ==
    LET i == CHOOSE i \in 1..Len(ds) :
                 /\ \A j \in 1..Len(ds) : dp[ds[i]] <= dp[ds[j]]
                 /\ \A j \in 1..(i - 1) : dp[ds[j]] > dp[ds[i]]
    IN ds[i]

\* mutant: the day's list is replaced, not extended
plan_assign(p, day, task) == [p EXCEPT ![day] = <<task>>]

\* plan[day].append(task)
plan_append(p, day, task) == [p EXCEPT ![day] = Append(@, task)]

\* day_points[day] += points
add_points(dp, day, points) == [dp EXCEPT ![day] = @ + points]

Range(s) == {s[i] : i \in 1..Len(s)}

\* lines 112-120: the window, the early return, the sort, the empty plan
PlanStart ==
    /\ pc = "plan_tasks"
    /\ LET ds == get_remaining_weekdays(now)
       IN /\ days' = ds
          /\ IF ds = <<>>
             THEN /\ pc' = "planned"
                  /\ plan' = <<>>
                  /\ UNCHANGED <<sorted_issues, day_points>>
             ELSE /\ pc' = "loop"
                  /\ sorted_issues' = sorted_by_key(issues)
                  /\ plan' = [d \in Range(ds) |-> <<>>]
                  /\ day_points' = [d \in Range(ds) |-> 0]
    /\ idx' = 1
    /\ UNCHANGED <<now, issues, assigned, overflowed, detVars, prioVars, mainVars>>

\* lines 122-132: one iteration that ends in the scan's break
PlaceFirstFit ==
    /\ pc = "loop"
    /\ idx <= Len(sorted_issues)
    /\ LET task == sorted_issues[idx]
           i == first_fit(days, day_points, task.points)
       IN /\ i # 0
          /\ plan' = plan_append(plan, days[i], task)
          /\ day_points' = add_points(day_points, days[i], task.points)
    /\ assigned' = TRUE
    /\ idx' = idx + 1
    /\ UNCHANGED <<pc, now, issues, days, sorted_issues, overflowed>>
    /\ UNCHANGED <<detVars, prioVars, mainVars>>

\* lines 122-138: one iteration whose scan finds no day
PlaceOverflow ==
    /\ pc = "loop"
    /\ idx <= Len(sorted_issues)
    /\ LET task == sorted_issues[idx]
           d == min_day(days, day_points)
       IN /\ first_fit(days, day_points, task.points) = 0
          /\ plan' = plan_append(plan, d, task)
          /\ day_points' = add_points(day_points, d, task.points)
          /\ overflowed' = overflowed \cup {task}
    /\ assigned' = FALSE
    /\ idx' = idx + 1
    /\ UNCHANGED <<pc, now, issues, days, sorted_issues>>
    /\ UNCHANGED <<detVars, prioVars, mainVars>>

\* line 140
PlanReturn ==
    /\ pc = "loop"
    /\ idx > Len(sorted_issues)
    /\ pc' = "planned"
    /\ UNCHANGED <<now, planVars, detVars, prioVars, mainVars>>

PlanInit ==
    /\ days = <<>>
    /\ sorted_issues = <<>>
    /\ plan = <<>>
    /\ day_points = <<>>
    /\ idx = 0
    /\ assigned = FALSE
    /\ overflowed = {}

DetIdle ==
    /\ run = 1
    /\ first_plan = <<>>
    /\ first_now = [date |-> 0, hour |-> 0]

PrioIdle ==
    /\ labels = <<>>
    /\ result = 0

MainIdle ==
    /\ responses = <<>>
    /\ all_issues = <<>>
    /\ pj = 0
    /\ calls = <<>>
    /\ saved = <<>>

\* a backlog as collect_all_issues builds it: distinct issues, any order of keys
Backlogs(n) ==
    {[i \in 1..n |-> [project |-> 1, number |-> i,
                      priority |-> k[i].priority, points |-> k[i].points]] :
        k \in [1..n -> [priority : PriorityValues, points : PointValues]]}

InitPlan ==
    /\ pc = "plan_tasks"
    /\ now \in MorningInstants
    /\ issues \in UNION {Backlogs(n) : n \in 1..MaxTasks}
    /\ PlanInit
    /\ DetIdle /\ PrioIdle /\ MainIdle

NextPlan == PlanStart \/ PlaceFirstFit \/ PlaceOverflow \/ PlanReturn

SpecPlan == InitPlan /\ [][NextPlan]_vars


----------------------------------------------------------------------------
(* Properties of the allocator, checked under SpecPlan *)

RECURSIVE sum_points(_)
sum_points(s) == IF s = <<>> THEN 0 ELSE Head(s).points + sum_points(Tail(s))

\* final load of the i-th day of the window, from the plan itself
Load(i) == sum_points(plan[days[i]])

\* number of places of the plan that hold task t
Occurrences(t) ==
    Cardinality(UNION {{<<i, k>> : k \in {k \in 1..Len(plan[days[i]]) :
                                               plan[days[i]][k] = t}} :
                       i \in 1..Len(days)})

\* window index of the day that holds task t
DayIndex(t) == CHOOSE i \in 1..Len(days) : t \in Range(plan[days[i]])

\* position of t in a sequence of distinct tasks
PosIn(s, t) == CHOOSE k \in 1..Len(s) : s[k] = t

\* C1: when plan_tasks returns, every input task is in exactly one day's
\* sequence and the points of all sequences add up to the input's points.
C1_Completeness ==
    pc = "planned" =>
        /\ \A n \in 1..Len(issues) : Occurrences(issues[n]) = 1
        /\ sum_points(issues)
             = sum_points([i \in 1..Len(days) |-> [points |-> Load(i)]])

C1_Witness ==
    /\ pc = "planned"
    /\ Len(issues) >= 3
    /\ overflowed # {}
    /\ \E i \in 1..Len(days) : Len(plan[days[i]]) >= 2

\* C2 as stated: a backlog of at most MAX_POINTS_PER_DAY points per day of
\* the window leaves every day's final load within MAX_POINTS_PER_DAY.
C2_Original ==
    (pc = "planned" /\ sum_points(issues) <= MAX_POINTS_PER_DAY * Len(days)) =>
        \A i \in 1..Len(days) : Load(i) <= MAX_POINTS_PER_DAY

\* C2 amended: a backlog of at most (MAX_POINTS_PER_DAY - 1) points per day
\* of the window plus one leaves every day's final load within
\* MAX_POINTS_PER_DAY.
C2_SoftCapacity ==
    (pc = "planned"
       /\ sum_points(issues) <= (MAX_POINTS_PER_DAY - 1) * Len(days) + 1) =>
        \A i \in 1..Len(days) : Load(i) <= MAX_POINTS_PER_DAY

C2_Witness ==
    /\ pc = "planned"
    /\ Len(days) >= 2
    /\ Len(issues) >= 3
    /\ sum_points(issues) = (MAX_POINTS_PER_DAY - 1) * Len(days) + 1
    /\ \E i \in 1..Len(days) : Load(i) = MAX_POINTS_PER_DAY

\* C3 as stated: of two tasks placed by the scan, the one of lower priority
\* number is on a day that is not later.
C3_Original ==
    pc = "planned" =>
        \A a, b \in Range(issues) :
            (a.priority < b.priority /\ a \notin overflowed /\ b \notin overflowed)
                => DayIndex(a) <= DayIndex(b)

\* C3 amended: of two tasks placed by the scan, the one of lower priority
\* number is on a day that is not later, provided it has no more points.
C3_FrontLoading ==
    pc = "planned" =>
        \A a, b \in Range(issues) :
            (/\ a.priority < b.priority
             /\ a.points <= b.points
             /\ a \notin overflowed /\ b \notin overflowed)
                => DayIndex(a) <= DayIndex(b)

C3_Witness ==
    /\ pc = "planned"
    /\ \E a, b \in Range(issues) :
          /\ a.priority < b.priority
          /\ a.points <= b.points
          /\ a \notin overflowed /\ b \notin overflowed
          /\ DayIndex(a) < DayIndex(b)
    /\ overflowed # {}

\* the window the calendar rule prescribes for a reference instant
ExpectedWindow(today) ==
    LET wd == weekday(today)
        first == IF wd < 5 THEN today.date ELSE today.date + (7 - wd)
        firstWd == IF wd < 5 THEN wd ELSE 0
        n == 5 - firstWd
    IN [i \in 1..n |-> [date |-> first + i - 1, wd |-> firstWd + i - 1]]

\* C5: the window is the reference day through Friday when the reference
\* day is Mon-Fri, and Monday-Friday of the next week when it is Sat/Sun;
\* it is never empty and holds only weekdays.
C5_Window ==
    pc # "plan_tasks" =>
        /\ days = ExpectedWindow(now)
        /\ Len(days) \in 1..5
        /\ \A i \in 1..Len(days) : days[i].wd \in 0..4

C5_Witness ==
    /\ pc # "plan_tasks"
    /\ weekday(now) = 6
    /\ Len(days) = 5
    /\ days[1].wd = 0
    /\ days[1].date = now.date + 1

\* sorted_issues is issues in (priority, points) order, ties in input order
SortedStable ==
    /\ Len(sorted_issues) = Len(issues)
    /\ Range(sorted_issues) = Range(issues)
    /\ \A k, l \in 1..Len(sorted_issues) :
          k < l =>
            LET a == sorted_issues[k]
                b == sorted_issues[l]
            IN \/ a.priority < b.priority
               \/ a.priority = b.priority /\ a.points < b.points
               \/ /\ a.priority = b.priority /\ a.points = b.points
                  /\ PosIn(issues, a) < PosIn(issues, b)

\* every day's sequence lists its tasks in processing order
ProcessingOrder ==
    \A i \in 1..Len(days) :
        \A k, l \in 1..Len(plan[days[i]]) :
            k < l => PosIn(sorted_issues, plan[days[i]][k])
                       < PosIn(sorted_issues, plan[days[i]][l])

\* an iteration that a day has room for puts sorted_issues[idx] at the end
\* of the first day with room
FirstFitStep ==
    LET task == sorted_issues[idx]
        room == {i \in 1..Len(days) :
                    day_points[days[i]] + task.points <= MAX_POINTS_PER_DAY}
    IN /\ assigned' = (room # {})
       /\ assigned' =>
            \E i \in room :
                /\ \A j \in 1..(i - 1) : j \notin room
                /\ plan' = [plan EXCEPT ![days[i]] = Append(@, task)]
                /\ day_points' = [day_points EXCEPT ![days[i]] = @ + task.points]

\* C9: tasks are processed in stable (priority, points) order and a task
\* the scan places goes to the end of the first day of the window whose
\* load plus the task's points is within MAX_POINTS_PER_DAY.
C9_FirstFit ==
    [][pc = "loop" =>
          /\ SortedStable /\ ProcessingOrder
          /\ SortedStable' /\ ProcessingOrder'
          /\ (idx' = idx + 1 => FirstFitStep)]_vars

C9_Witness ==
    /\ pc = "loop"
    /\ idx > 2
    /\ assigned
    /\ sorted_issues # issues
    /\ Len(plan[days[1]]) >= 2
    /\ \E i \in 2..Len(days) :
          /\ plan[days[i]] # <<>>
          /\ plan[days[i]][Len(plan[days[i]])] = sorted_issues[idx - 1]

\* an iteration that ends unassigned found no day with room and puts the
\* task at the end of the earliest day of minimal load
OverflowStep ==
    LET task == sorted_issues[idx]
    IN ~assigned' =>
         /\ \A i \in 1..Len(days) :
               day_points[days[i]] + task.points > MAX_POINTS_PER_DAY
         /\ \E i \in 1..Len(days) :
               /\ \A j \in 1..Len(days) : day_points[days[i]] <= day_points[days[j]]
               /\ \A j \in 1..(i - 1) : day_points[days[j]] > day_points[days[i]]
               /\ plan' = [plan EXCEPT ![days[i]] = Append(@, task)]
               /\ day_points' = [day_points EXCEPT ![days[i]] = @ + task.points]

\* C10: the overflow branch is taken only when no day has room, it appends
\* to the earliest day of minimal load, and only an overflow placement can
\* take a day's load above MAX_POINTS_PER_DAY.
C10_Overflow ==
    [][(pc = "loop" /\ idx' = idx + 1) =>
          /\ OverflowStep
          /\ \A i \in 1..Len(days) :
                (day_points'[days[i]] > MAX_POINTS_PER_DAY
                   /\ day_points[days[i]] <= MAX_POINTS_PER_DAY) => ~assigned'
          /\ \A i \in 1..Len(days) :
                Load(i)' > MAX_POINTS_PER_DAY =>
                    \E t \in overflowed' : t \in Range(plan'[days[i]])]_vars

C10_Witness ==
    /\ pc = "loop"
    /\ idx > 1
    /\ ~assigned
    /\ sorted_issues[idx - 1] \in overflowed
    /\ \E i, j \in 1..Len(days) :
          /\ i < j
          /\ plan[days[i]][Len(plan[days[i]])] = sorted_issues[idx - 1]
          /\ day_points[days[i]] > MAX_POINTS_PER_DAY
          /\ day_points[days[i]] - sorted_issues[idx - 1].points = day_points[days[j]]

----------------------------------------------------------------------------
(* Two invocations of plan_tasks on the same issues *)

\* the clock never runs backwards
not_before(t, u) == u.date > t.date \/ (u.date = t.date /\ u.hour >= t.hour)

\* plan_tasks(issues) is called again, later, with the same argument
Reinvoke ==
    /\ pc = "planned"
    /\ run = 1
    /\ first_plan' = plan
    /\ first_now' = now
    /\ run' = 2
    /\ now' \in {u \in Instants : not_before(now, u)}
    /\ pc' = "plan_tasks"
    /\ days' = <<>>
    /\ sorted_issues' = <<>>
    /\ plan' = <<>>
    /\ day_points' = <<>>
    /\ idx' = 0
    /\ assigned' = FALSE
    /\ overflowed' = {}
    /\ UNCHANGED <<issues, prioVars, mainVars>>

InitDet ==
    /\ pc = "plan_tasks"
    /\ now \in Instants
    /\ issues \in UNION {Backlogs(n) : n \in 1..MaxTasksDet}
    /\ PlanInit
    /\ DetIdle /\ PrioIdle /\ MainIdle

NextDet == PlanStart \/ PlaceFirstFit \/ PlaceOverflow \/ PlanReturn \/ Reinvoke

SpecDet == InitDet /\ [][NextDet]_vars

----------------------------------------------------------------------------
(* TaskNormalizer: get_issue_priority, get_issue_size *)

\* A label name is a sequence of characters.  "sup2" stands for the
\* character SUPERSCRIPT TWO: str.isdigit() accepts it, int() does not.
DecimalDigits == <<"0", "1", "2", "3", "4", "5", "6", "7", "8", "9">>

SIZE_S == <<"s", "i", "z", "e", "/", "S">>
SIZE_M == <<"s", "i", "z", "e", "/", "M">>
SIZE_L == <<"s", "i", "z", "e", "/", "L">>
TODO == <<"t", "o", "d", "o">>

\* SIZE_POINTS, in the dict's order
SIZE_POINTS == <<[label |-> SIZE_S, points |-> 1],
                 [label |-> SIZE_M, points |-> 3],
                 [label |-> SIZE_L, points |-> 5]>>

\* label names an issue may carry
LabelVocab ==
    {<<"P", "0">>, <<"P", "1">>, <<"P", "4">>, <<"P", "9">>, <<"P", "sup2">>,
     <<"P", "1", "0">>, <<"P">>, <<"p", "1">>, <<"P", "x">>, <<"x", "1">>,
     SIZE_S, TODO}

\* str.isdigit()
isdigit(c) == c \in Range(DecimalDigits) \cup {"sup2"}

\* int(c): the value of a decimal digit, ValueError for anything else
int_of(c) ==
    IF c \in Range(DecimalDigits)
    THEN [kind |-> "return", value |-> (CHOOSE i \in 1..10 : DecimalDigits[i] = c) - 1]
    ELSE [kind |-> "ValueError", value |-> 0]

\* label.startswith("P") and len(label) == 2 and label[1].isdigit()
is_priority_label(label) ==
    /\ Len(label) >= 1 /\ label[1] = "P"
    /\ Len(label) = 2
    /\ isdigit(label[2])

\* the for loop over the labels, and the default
RECURSIVE get_issue_priority(_)
get_issue_priority(ls) ==
    IF ls = <<>> THEN [kind |-> "return", value |-> DEFAULT_PRIORITY]
    ELSE IF is_priority_label(Head(ls)) THEN int_of(Head(ls)[2])
    ELSE get_issue_priority(Tail(ls))

\* the for loop over SIZE_POINTS.items(), and the default
RECURSIVE size_scan(_, _)
size_scan(table, ls) ==
    IF table = <<>> THEN DEFAULT_POINTS
    ELSE IF Head(table).label \in Range(ls) THEN Head(table).points
    ELSE size_scan(Tail(table), ls)

get_issue_size(ls) == size_scan(SIZE_POINTS, ls)

\* one call of get_issue_priority: it returns, or the exception leaves it
PriorityCall ==
    /\ pc = "get_issue_priority"
    /\ result' = get_issue_priority(labels)
    /\ pc' = IF result'.kind = "return" THEN "returned" ELSE "raised"
    /\ UNCHANGED <<now, labels, planVars, detVars, mainVars>>

LabelLists(vocab, n) == UNION {[1..k -> vocab] : k \in 0..n}

InitPriority ==
    /\ pc = "get_issue_priority"
    /\ now = [date |-> 1, hour |-> 9]
    /\ labels \in LabelLists(LabelVocab, MaxLabels)
    /\ result = 0
    /\ PlanInit /\ issues = <<>>
    /\ DetIdle /\ MainIdle

NextPriority == PriorityCall

SpecPriority == InitPriority /\ [][NextPriority]_vars

\* the priority the resolution rule assigns: the digit of the first label
\* that is "P" followed by exactly one digit 0-9, and 5 without one
RECURSIVE ExpectedPriority(_)
ExpectedPriority(ls) ==
    IF ls = <<>> THEN 5
    ELSE IF Len(Head(ls)) = 2 /\ Head(ls)[1] = "P" /\ Head(ls)[2] \in Range(DecimalDigits)
         THEN (CHOOSE i \in 1..10 : DecimalDigits[i] = Head(ls)[2]) - 1
         ELSE ExpectedPriority(Tail(ls))

\* C8: get_issue_priority is total: for every label list it returns the
\* digit of the first label that is P and one digit, and 5 without one.
C8_Total ==
    pc # "get_issue_priority" =>
        /\ pc = "returned"
        /\ result.kind = "return"
        /\ result.value = ExpectedPriority(labels)

----------------------------------------------------------------------------
(* The run: main, collect_all_issues, fetch_issues, save_plan *)

\* label lists of the issues of the modelled runs
IssueLabelLists ==
    {<<TODO>>, <<TODO, <<"P", "1">>, SIZE_S>>, <<SIZE_L, <<"P", "0">>, TODO>>,
     <<TODO, <<"P", "sup2">>>>}

RawIssues == [number : 1..MaxIssues, pull_request : BOOLEAN, labels : IssueLabelLists]

\* response.json(): an error object, or the list of issues (PRs among them)
Responses ==
    {[kind |-> "dict", data |-> <<>>]} \cup
    {[kind |-> "list", data |-> d] :
        d \in {s \in UNION {[1..k -> RawIssues] : k \in 0..MaxIssues} :
                  \A i \in DOMAIN s : s[i].number = i}}

non_pr(issue) == ~issue.pull_request

\* fetch_issues: [] for an error object, else the issues that are no PR
fetch_issues(response) ==
    IF response.kind = "dict" THEN <<>> ELSE SelectSeq(response.data, non_pr)

\* lines 78-88: append one task per issue; an exception stops the loop
RECURSIVE append_issues(_, _, _)
append_issues(acc, name, fetched) ==
    IF fetched = <<>> THEN [kind |-> "return", all |-> acc]
    ELSE LET issue == Head(fetched)
             prio == get_issue_priority(issue.labels)
         IN IF prio.kind # "return"
            THEN [kind |-> prio.kind, all |-> acc]
            ELSE append_issues(
                     Append(acc, [project |-> name, number |-> issue.number,
                                  priority |-> prio.value,
                                  points |-> get_issue_size(issue.labels)]),
                     name, Tail(fetched))

\* lines 72-88: one iteration of the loop over config["projects"]
CollectProject ==
    /\ pc = "collect"
    /\ pj <= Len(responses)
    /\ LET out == append_issues(all_issues, pj, fetch_issues(responses[pj]))
       IN /\ all_issues' = out.all
          /\ IF out.kind = "return"
             THEN pj' = pj + 1 /\ pc' = "collect"
             ELSE pj' = pj /\ pc' = "crashed"
    /\ calls' = Append(calls, "github_get")
    /\ UNCHANGED <<now, responses, saved, planVars, detVars, prioVars>>

\* line 90
CollectReturn ==
    /\ pc = "collect"
    /\ pj > Len(responses)
    /\ pc' = "collected"
    /\ UNCHANGED <<now, planVars, detVars, prioVars, mainVars>>

\* lines 195-197
MainNoIssues ==
    /\ pc = "collected"
    /\ all_issues = <<>>
    /\ calls' = Append(calls, "notify_slack")
    /\ pc' = "done"
    /\ UNCHANGED <<now, responses, all_issues, pj, saved, planVars, detVars, prioVars>>

\* line 201: plan_tasks(issues) is entered
MainPlan ==
    /\ pc = "collected"
    /\ all_issues # <<>>
    /\ issues' = all_issues
    /\ pc' = "plan_tasks"
    /\ UNCHANGED <<now, days, sorted_issues, plan, day_points, idx, assigned,
                   overflowed, detVars, prioVars, mainVars>>

\* lines 202-205: save_plan, format_today_message, notify_slack
MainSave ==
    /\ pc = "planned"
    /\ saved' = plan
    /\ calls' = calls \o <<"save_plan", "notify_slack">>
    /\ pc' = "done"
    /\ UNCHANGED <<now, responses, all_issues, pj, planVars, detVars, prioVars>>

InitMain ==
    /\ pc = "collect"
    /\ now \in MorningInstants
    /\ responses \in UNION {[1..n -> Responses] : n \in 1..NProj}
    /\ all_issues = <<>>
    /\ pj = 1
    /\ calls = <<>>
    /\ saved = <<>>
    /\ issues = <<>>
    /\ PlanInit
    /\ DetIdle /\ PrioIdle

NextMain ==
    \/ CollectProject \/ CollectReturn \/ MainNoIssues \/ MainPlan
    \/ PlanStart \/ PlaceFirstFit \/ PlaceOverflow \/ PlanReturn
    \/ MainSave

SpecMain == InitMain /\ [][NextMain]_vars

\* the tasks of one answered list, by the resolution rules
ExpectedTasks(name, response) ==
    LET kept == SelectSeq(response.data, non_pr)
    IN [k \in 1..Len(kept) |->
           [project |-> name, number |-> kept[k].number,
            priority |-> ExpectedPriority(kept[k].labels),
            points |-> get_issue_size(kept[k].labels)]]

\* the non-PR issues of the projects 1..n that answered with a list
RECURSIVE ExpectedBacklog(_)
ExpectedBacklog(n) ==
    IF n = 0 THEN <<>>
    ELSE ExpectedBacklog(n - 1)
           \o (IF responses[n].kind = "list"
               THEN ExpectedTasks(n, responses[n]) ELSE <<>>)

\* C7: once a project has answered with an error object, the collection
\* still goes through every remaining project and returns the non-PR issues
\* of the projects that answered with a list, in project order.
C7_Absorbed ==
    (/\ pc \in {"collected", "crashed"}
     /\ \E i \in 1..Len(responses) : i < pj /\ responses[i].kind = "dict") =>
        /\ pc = "collected"
        /\ all_issues = ExpectedBacklog(Len(responses))

Count(s, x) == Cardinality({i \in 1..Len(s) : s[i] = x})

\* C6: a run with a backlog asks the generator for a plan exactly once,
\* and the plan it saves covers Monday-Friday and holds every task once.
C6_Fallback ==
    (pc = "done" /\ all_issues # <<>>) =>
        /\ Count(calls, "generate_plan") = 1
        /\ Len(days) = 5 /\ days[1].wd = 0
        /\ saved = plan
        /\ \A n \in 1..Len(all_issues) : Occurrences(all_issues[n]) = 1

=============================================================================
